---- MODULE Spec2Model ----
(***************************************************************************)
(* A model of the Sudoku backtracking solver.                              *)
(*                                                                         *)
(* The repository holds the solver twice: the split version                *)
(* (sudoku_board.rs + sudoku_solver.rs) and the earlier single-file        *)
(* version (lib.rs).  The variable impl says which of the two programs a   *)
(* behaviour runs; the loop body is the same in both, the constructors and *)
(* the loop guard are not.                                                 *)
(*                                                                         *)
(* A grid is a sequence of rows, each a sequence of u8 values              *)
(* (Vec<Vec<u8>>).  The code indexes from 0, TLA+ sequences from 1: the    *)
(* cell the code calls configuration[r][c] is cfg[r + 1][c + 1].           *)
(* percent_solved is an f32 used for display only and is not modelled.     *)
(***************************************************************************)
EXTENDS Integers, Sequences, FiniteSets, TLC

(***************************************************************************)
(* Bounds of the model                                                     *)
(***************************************************************************)
\* largest cell value the inputs are drawn from (u8 allows up to 255)
MaxValue == 10
\* largest number of clues blanked out of a fixture
MaxBlanks == 1
\* largest number of solve() calls on one solver
MaxCalls == 3
\* largest number of solve() calls on a second solver built from the same board
MaxOtherCalls == 1

(***************************************************************************)
(* Program constants                                                       *)
(***************************************************************************)
\* width of usize on a 64-bit target; the index is a usize and `-= 1` at 0
\* wraps to 2^64 - 1 when overflow checks are off
UsizeBits == 64

\* A usize is written as its digits in base 2^16, most significant first:
\* <<0, 0, 0, 5>> is 5 and <<65535, 65535, 65535, 65535>> is 2^64 - 1.
LimbBits == 16
LimbModulus == 2 ^ LimbBits
UsizeLimbs == UsizeBits \div LimbBits

\* the usize of a number below 2^31
Usize(n) ==
    [k \in 1..UsizeLimbs |->
        IF k = UsizeLimbs THEN n % LimbModulus
        ELSE IF k = UsizeLimbs - 1 THEN n \div LimbModulus
        ELSE 0]

\* usize::MAX
UsizeMax == [k \in 1..UsizeLimbs |-> LimbModulus - 1]

\* the number a usize below 2^16 stands for, as used to index a Vec
Position(u) == u[UsizeLimbs]

\* u < v and u <= v on usize
UsizeLt(u, v) ==
    \E k \in 1..UsizeLimbs :
        u[k] < v[k] /\ \A j \in 1..(k - 1) : u[j] = v[j]

UsizeLeq(u, v) == u = v \/ UsizeLt(u, v)

\* u - 1 modulo 2^64: the borrow runs from digit k towards the first digit
RECURSIVE BorrowFrom(_, _)
BorrowFrom(u, k) ==
    IF k = 0 THEN u
    ELSE IF u[k] > 0 THEN [u EXCEPT ![k] = @ - 1]
    ELSE BorrowFrom([u EXCEPT ![k] = LimbModulus - 1], k - 1)

WrappingSub1(u) == BorrowFrom(u, UsizeLimbs)

\* u + 1 modulo 2^64: the carry runs from digit k towards the first digit
RECURSIVE CarryFrom(_, _)
CarryFrom(u, k) ==
    IF k = 0 THEN u
    ELSE IF u[k] < LimbModulus - 1 THEN [u EXCEPT ![k] = @ + 1]
    ELSE CarryFrom([u EXCEPT ![k] = 0], k - 1)

WrappingAdd1(u) == CarryFrom(u, UsizeLimbs)

\* no panic
None == "None"

\* Option::None of a board; also the result of an accessor that panicked
NoBoard == <<>>

(***************************************************************************)
(* SudokuBoard                                                             *)
(***************************************************************************)
Cell(cfg, r, c) == cfg[r + 1][c + 1]

SetCell(cfg, r, c, v) == [cfg EXCEPT ![r + 1][c + 1] = v]

\* mutant: only the number of rows is tested
InvalidDimensions_RowsOnly(puzzle) == Len(puzzle) # 9

\* the dimension test of SudokuBoard::new (true = the panic branch)
InvalidDimensions(puzzle) ==
    Len(puzzle) # 9 \/ \E i \in 1..Len(puzzle) : Len(puzzle[i]) # 9

\* mutant: the bound of the value test is off by one
InvalidValue_OffByOne(puzzle) ==
    \E i \in 1..Len(puzzle) : \E j \in 1..Len(puzzle[i]) : puzzle[i][j] > 10

\* the value test of SudokuBoard::new (true = the panic branch)
InvalidValue(puzzle) ==
    \E i \in 1..Len(puzzle) : \E j \in 1..Len(puzzle[i]) : puzzle[i][j] > 9

\* mutant: the constructor also refuses a value repeated in a row
SudokuBoard_new_RowChecked(puzzle) ==
    IF InvalidDimensions(puzzle)
    THEN [panic |-> "The board must be 9x9.", configuration |-> NoBoard]
    ELSE IF InvalidValue(puzzle)
    THEN [panic |-> "All values must be [0..9] inclusive", configuration |-> NoBoard]
    ELSE IF \E i \in 1..9 : \E j \in 1..9 : \E k \in 1..9 :
              j # k /\ puzzle[i][j] # 0 /\ puzzle[i][j] = puzzle[i][k]
    THEN [panic |-> "An invalid starting board configuration was passed.",
          configuration |-> NoBoard]
    ELSE [panic |-> None, configuration |-> puzzle]

\* SudokuBoard::new of sudoku_board.rs: the panic it raises, or the board
SudokuBoard_new(puzzle) ==
    IF InvalidDimensions(puzzle)
    THEN [panic |-> "The board must be 9x9.", configuration |-> NoBoard]
    ELSE IF InvalidValue(puzzle)
    THEN [panic |-> "All values must be [0..9] inclusive", configuration |-> NoBoard]
    ELSE [panic |-> None, configuration |-> puzzle]

\* the dimension test of SudokuSolver::new of lib.rs
Lib_InvalidDimensions(puzzle) ==
    Len(puzzle) # 9 \/ \E i \in 1..Len(puzzle) : Len(puzzle[i]) # 9

\* SudokuBoard::new of lib.rs: no check at all
Lib_SudokuBoard_new(puzzle) == [panic |-> None, configuration |-> puzzle]

get_row(cfg, row_index) == [k \in 1..9 |-> cfg[row_index + 1][k]]

\* mutant: the two indexes are exchanged, so that a row is returned
get_column_AsRow(cfg, column_index) == [k \in 1..9 |-> cfg[column_index + 1][k]]

get_column(cfg, column_index) == [k \in 1..9 |-> cfg[k][column_index + 1]]

\* mutant: the arm of box 5 repeats the start of box 4
NonetStart_RepeatedArm(nonet_index) ==
    CASE nonet_index = 0 -> <<0, 0>>
      [] nonet_index = 1 -> <<0, 3>>
      [] nonet_index = 2 -> <<0, 6>>
      [] nonet_index = 3 -> <<3, 0>>
      [] nonet_index = 4 -> <<3, 3>>
      [] nonet_index = 5 -> <<3, 3>>
      [] nonet_index = 6 -> <<6, 0>>
      [] nonet_index = 7 -> <<6, 3>>
      [] nonet_index = 8 -> <<6, 6>>
      [] OTHER -> <<>>

\* the match of get_nonet: <<starting_row, starting_column>>
NonetStart(nonet_index) ==
    CASE nonet_index = 0 -> <<0, 0>>
      [] nonet_index = 1 -> <<0, 3>>
      [] nonet_index = 2 -> <<0, 6>>
      [] nonet_index = 3 -> <<3, 0>>
      [] nonet_index = 4 -> <<3, 3>>
      [] nonet_index = 5 -> <<3, 6>>
      [] nonet_index = 6 -> <<6, 0>>
      [] nonet_index = 7 -> <<6, 3>>
      [] nonet_index = 8 -> <<6, 6>>
      [] OTHER -> <<>>

\* mutant: the two loops are nested the other way round
NonetCoords_ColumnMajor(nonet_index) ==
    LET s == NonetStart(nonet_index)
    IN  [n \in 1..9 |-> <<s[1] + ((n - 1) % 3), s[2] + ((n - 1) \div 3)>>]

\* the coordinates get_nonet reads, in the order it pushes them
NonetCoords(nonet_index) ==
    LET s == NonetStart(nonet_index)
    IN  [n \in 1..9 |-> <<s[1] + ((n - 1) \div 3), s[2] + ((n - 1) % 3)>>]

get_nonet(cfg, nonet_index) ==
    IF NonetStart(nonet_index) = <<>>
    THEN NoBoard  \* panic!("An invalid nonet_index was passed into 'get_nonet'")
    ELSE LET co == NonetCoords(nonet_index)
         IN  [n \in 1..9 |-> Cell(cfg, co[n][1], co[n][2])]

\* mutant: the blank cells are not filtered out
WithoutUnsolvedSpaces_Keep(values) == values

\* .filter(|value| value != 0)
WithoutUnsolvedSpaces(values) == SelectSeq(values, LAMBDA v : v # 0)

\* .iter().unique().collect_vec().len() != len()
HasRepeat(values) ==
    Cardinality({values[i] : i \in 1..Len(values)}) # Len(values)

\* mutant: the boxes are not examined
all_spaces_valid_NoNonet(cfg) ==
    /\ \A row_index \in 0..8 :
         ~HasRepeat(WithoutUnsolvedSpaces(get_row(cfg, row_index)))
    /\ \A column_index \in 0..8 :
         ~HasRepeat(WithoutUnsolvedSpaces(get_column(cfg, column_index)))

all_spaces_valid(cfg) ==
    /\ \A row_index \in 0..8 :
         ~HasRepeat(WithoutUnsolvedSpaces(get_row(cfg, row_index)))
    /\ \A column_index \in 0..8 :
         ~HasRepeat(WithoutUnsolvedSpaces(get_column(cfg, column_index)))
    /\ \A nonet_index \in 0..8 :
         ~HasRepeat(WithoutUnsolvedSpaces(get_nonet(cfg, nonet_index)))

\* mutant: a board counts as solved only if it is also valid
all_spaces_solved_AndValid(cfg) ==
    /\ ~ \E i \in 1..Len(cfg) : \E j \in 1..Len(cfg[i]) : cfg[i][j] = 0
    /\ all_spaces_valid(cfg)

all_spaces_solved(cfg) ==
    ~ \E i \in 1..Len(cfg) : \E j \in 1..Len(cfg[i]) : cfg[i][j] = 0

\* mutant: the inner loop stops one column early
RECURSIVE UnsolvedInRow_SkipLast(_, _, _)
UnsolvedInRow_SkipLast(cfg, row, column) ==
    IF column > 7 THEN <<>>
    ELSE (IF Cell(cfg, row, column) = 0 THEN << <<row, column>> >> ELSE <<>>)
         \o UnsolvedInRow_SkipLast(cfg, row, column + 1)

\* the inner loop of get_unsolved_spaces: columns column..8 of one row
RECURSIVE UnsolvedInRow(_, _, _)
UnsolvedInRow(cfg, row, column) ==
    IF column > 8 THEN <<>>
    ELSE (IF Cell(cfg, row, column) = 0 THEN << <<row, column>> >> ELSE <<>>)
         \o UnsolvedInRow(cfg, row, column + 1)

\* mutant: the rows are scanned from the last to the first
RECURSIVE UnsolvedFromRow_Reversed(_, _)
UnsolvedFromRow_Reversed(cfg, row) ==
    IF row > 8 THEN <<>>
    ELSE UnsolvedFromRow_Reversed(cfg, row + 1) \o UnsolvedInRow(cfg, row, 0)

\* the outer loop of get_unsolved_spaces: rows row..8
RECURSIVE UnsolvedFromRow(_, _)
UnsolvedFromRow(cfg, row) ==
    IF row > 8 THEN <<>>
    ELSE UnsolvedInRow(cfg, row, 0) \o UnsolvedFromRow(cfg, row + 1)

get_unsolved_spaces(cfg) == UnsolvedFromRow(cfg, 0)

(***************************************************************************)
(* SudokuSolver                                                            *)
(***************************************************************************)
\* HashMap<(usize, usize), Vec<u8>>: a function whose domain is the keys held
EmptyMap == [k \in {} |-> <<>>]

\* .entry(key).or_default(): the map with the key inserted if it was absent
EntryOrDefault(map, key) ==
    IF key \in DOMAIN map THEN map ELSE (key :> <<>>) @@ map

\* mutant: the record of a coordinate survives the backtrack
MapRemove_Keep(map, key) == map

\* .remove(&key)
MapRemove(map, key) == [k \in (DOMAIN map) \ {key} |-> map[k]]

SeqToSet(values) == {values[i] : i \in 1..Len(values)}

\* mutant: the candidate values are scanned from 9 down to 1
all_value_candidates_Descending == <<9, 8, 7, 6, 5, 4, 3, 2, 1>>

\* vec![1, 2, 3, 4, 5, 6, 7, 8, 9]
all_value_candidates == <<1, 2, 3, 4, 5, 6, 7, 8, 9>>

\* mutant: the column of the box is taken from the column modulo 3
NonetIndexOf_ColumnModulo(row_index, column_index) ==
    3 * ((9 * row_index + column_index) \div 27) + (column_index % 3)

\* the index of the nonet of a coordinate
NonetIndexOf(row_index, column_index) ==
    3 * ((9 * row_index + column_index) \div 27)
      + (((9 * row_index + column_index) \div 3) % 3)

\* mutant: the values of the nonet are not excluded
invalid_value_candidates_NoNonet(cfg, attempted, row_index, column_index) ==
    SeqToSet(attempted)
      \cup SeqToSet(WithoutUnsolvedSpaces(get_row(cfg, row_index)))
      \cup SeqToSet(WithoutUnsolvedSpaces(get_column(cfg, column_index)))

\* mutant: the values of the column are not excluded
invalid_value_candidates_NoColumn(cfg, attempted, row_index, column_index) ==
    SeqToSet(attempted)
      \cup SeqToSet(WithoutUnsolvedSpaces(get_row(cfg, row_index)))
      \cup SeqToSet(WithoutUnsolvedSpaces(
               get_nonet(cfg, NonetIndexOf(row_index, column_index))))

\* the set of previously used values and the values in row, column and nonet
invalid_value_candidates(cfg, attempted, row_index, column_index) ==
    SeqToSet(attempted)
      \cup SeqToSet(WithoutUnsolvedSpaces(get_row(cfg, row_index)))
      \cup SeqToSet(WithoutUnsolvedSpaces(get_column(cfg, column_index)))
      \cup SeqToSet(WithoutUnsolvedSpaces(
               get_nonet(cfg, NonetIndexOf(row_index, column_index))))

\* mutant: the first valid candidate is the largest one
valid_value_candidates_Descending(cfg, attempted, row_index, column_index) ==
    LET invalid == invalid_value_candidates(cfg, attempted, row_index, column_index)
    IN  SelectSeq(<<9, 8, 7, 6, 5, 4, 3, 2, 1>>, LAMBDA v : v \notin invalid)

\* the values of all_value_candidates that are not invalid, in their order
valid_value_candidates(cfg, attempted, row_index, column_index) ==
    LET invalid == invalid_value_candidates(cfg, attempted, row_index, column_index)
    IN  SelectSeq(all_value_candidates, LAMBDA v : v \notin invalid)

\* `unsolved_spaces_index -= 1` on a usize: a panic when the build checks
\* overflow (debug), a wrap-around when it does not (release)
DecrementIndex(index, checks) ==
    IF index = Usize(0) /\ checks
    THEN [panic |-> "attempt to subtract with overflow", index |-> index]
    ELSE [panic |-> None, index |-> WrappingSub1(index)]

\* mutant: a forward step pushes the value found twice
LoopBody_PushTwice(st, spaces, checks) ==
    IF ~UsizeLt(st.index, Usize(Len(spaces)))
    THEN [st EXCEPT !.panic = "index out of bounds"]
    ELSE
      LET row_index == spaces[Position(st.index) + 1][1]
          column_index == spaces[Position(st.index) + 1][2]
          key == <<row_index, column_index>>
          reset == SetCell(st.working, row_index, column_index, 0)
          entered == EntryOrDefault(st.attempted, key)
          valid == valid_value_candidates(reset, entered[key],
                                          row_index, column_index)
      IN  IF Len(valid) > 0
          THEN [working |-> SetCell(reset, row_index, column_index, valid[1]),
                attempted |-> [entered EXCEPT
                               ![key] = Append(Append(@, valid[1]), valid[1])],
                index |-> WrappingAdd1(st.index),
                panic |-> None]
          ELSE LET dec == DecrementIndex(st.index, checks)
               IN  [working |-> reset,
                    attempted |-> MapRemove(entered, key),
                    index |-> dec.index,
                    panic |-> dec.panic]

\* mutant: the reset also blanks the next cell of the row
LoopBody_ResetsNeighbour(st, spaces, checks) ==
    IF ~UsizeLt(st.index, Usize(Len(spaces)))
    THEN [st EXCEPT !.panic = "index out of bounds"]
    ELSE
      LET row_index == spaces[Position(st.index) + 1][1]
          column_index == spaces[Position(st.index) + 1][2]
          key == <<row_index, column_index>>
          reset == SetCell(SetCell(st.working, row_index, column_index, 0),
                           row_index, (column_index + 1) % 9, 0)
          entered == EntryOrDefault(st.attempted, key)
          valid == valid_value_candidates(reset, entered[key],
                                          row_index, column_index)
      IN  IF Len(valid) > 0
          THEN [working |-> SetCell(reset, row_index, column_index, valid[1]),
                attempted |-> [entered EXCEPT ![key] = Append(@, valid[1])],
                index |-> WrappingAdd1(st.index),
                panic |-> None]
          ELSE LET dec == DecrementIndex(st.index, checks)
               IN  [working |-> reset,
                    attempted |-> MapRemove(entered, key),
                    index |-> dec.index,
                    panic |-> dec.panic]

\* One pass through the body of the while loop of solve(), from the state
\* st = [working, attempted, index, panic] of its local variables.  The
\* index is below the length where `+= 1` runs, so that it cannot overflow.
LoopBody(st, spaces, checks) ==
    IF ~UsizeLt(st.index, Usize(Len(spaces)))
    THEN [st EXCEPT !.panic = "index out of bounds"]
    ELSE
      LET row_index == spaces[Position(st.index) + 1][1]
          column_index == spaces[Position(st.index) + 1][2]
          key == <<row_index, column_index>>
          reset == SetCell(st.working, row_index, column_index, 0)
          entered == EntryOrDefault(st.attempted, key)
          valid == valid_value_candidates(reset, entered[key],
                                          row_index, column_index)
      IN  IF Len(valid) > 0
          THEN [working |-> SetCell(reset, row_index, column_index, valid[1]),
                attempted |-> [entered EXCEPT ![key] = Append(@, valid[1])],
                index |-> WrappingAdd1(st.index),
                panic |-> None]
          ELSE LET dec == DecrementIndex(st.index, checks)
               IN  [working |-> reset,
                    attempted |-> MapRemove(entered, key),
                    index |-> dec.index,
                    panic |-> dec.panic]

\* the guard of the while loop: sudoku_solver.rs compares the index with the
\* number of unsolved spaces, lib.rs asks the working board
LoopGuard(which, st, spaces) ==
    IF which = "lib"
    THEN ~all_spaces_solved(st.working)
    ELSE UsizeLt(st.index, Usize(Len(spaces)))

(***************************************************************************)
(* Inputs: the grids of the test fixtures, with clues blanked, one cell    *)
(* overwritten and rows or columns cut off                                 *)
(***************************************************************************)
\* the grid of solve_easy_works
EasyPuzzle == <<
    <<0,7,3, 8,9,4, 5,1,2>>,
    <<9,1,2, 7,3,5, 4,8,6>>,
    <<8,4,5, 0,0,2, 9,7,3>>,
    <<7,9,8, 2,6,1, 3,5,4>>,
    <<5,2,6, 4,7,3, 8,9,1>>,
    <<1,3,4, 5,8,9, 2,6,7>>,
    <<4,6,9, 0,2,8, 7,3,5>>,
    <<2,8,7, 3,5,6, 1,4,9>>,
    <<3,5,1, 9,4,7, 6,2,0>> >>

\* the grid of solve_medium_works
MediumPuzzle == <<
    <<7,8,0, 4,0,0, 1,2,0>>,
    <<6,0,0, 0,7,5, 0,0,9>>,
    <<0,0,0, 6,0,1, 0,7,8>>,
    <<0,0,7, 0,4,0, 2,6,0>>,
    <<0,0,1, 0,5,0, 9,3,0>>,
    <<9,0,4, 0,6,0, 0,0,5>>,
    <<0,7,0, 3,0,0, 0,1,2>>,
    <<1,2,0, 0,0,7, 4,0,0>>,
    <<0,4,9, 2,0,6, 0,0,7>> >>

\* valid_board_spaces of all_spaces_valid_works: a solved board
SolvedBoard == <<
    <<6,7,3, 8,9,4, 5,1,2>>,
    <<9,1,2, 7,3,5, 4,8,6>>,
    <<8,4,5, 6,1,2, 9,7,3>>,
    <<7,9,8, 2,6,1, 3,5,4>>,
    <<5,2,6, 4,7,3, 8,9,1>>,
    <<1,3,4, 5,8,9, 2,6,7>>,
    <<4,6,9, 1,2,8, 7,3,5>>,
    <<2,8,7, 3,5,6, 1,4,9>>,
    <<3,5,1, 9,4,7, 6,2,8>> >>

\* invalid_board_spaces of all_spaces_valid_works: full, with two 9 in row 4
InvalidSolvedBoard == [SolvedBoard EXCEPT ![5][7] = 9]

Fixtures == {EasyPuzzle, MediumPuzzle, SolvedBoard, InvalidSolvedBoard}

\* clues that may be blanked, cells that may be overwritten
BlankPool == {<<0, 1>>, <<3, 4>>, <<2, 7>>}
OverridePool == {<<0, 0>>, <<2, 3>>, <<2, 4>>}

Shapes == {"9x9", "8 rows", "8 columns", "one short row", "10 rows"}

Blanked(grid, blanks) ==
    [i \in 1..9 |-> [j \in 1..9 |->
        IF <<i - 1, j - 1>> \in blanks THEN 0 ELSE grid[i][j]]]

Shaped(grid, shape) ==
    CASE shape = "9x9" -> grid
      [] shape = "8 rows" -> SubSeq(grid, 1, 8)
      [] shape = "8 columns" -> [i \in 1..9 |-> SubSeq(grid[i], 1, 8)]
      [] shape = "one short row" -> [grid EXCEPT ![5] = SubSeq(@, 1, 8)]
      [] shape = "10 rows" -> Append(grid, grid[1])

Inputs ==
    {Shaped(SetCell(Blanked(base, blanks), cell[1], cell[2], v), shape) :
        base \in Fixtures,
        blanks \in {b \in SUBSET BlankPool : Cardinality(b) <= MaxBlanks},
        cell \in OverridePool, v \in 0..MaxValue, shape \in Shapes}

(***************************************************************************)
(* The state                                                               *)
(***************************************************************************)
VARIABLES
    impl,                  \* "sudoku_solver" (with sudoku_board.rs) or "lib"
    overflow_checks,       \* whether the build checks arithmetic overflow
    input,                 \* the raw grid the caller supplies
    pc,                    \* "start", "board", "queried", "ready", "loop",
                           \* "panicked"
    panic,                 \* the panic message, None while running
    board,                 \* the caller's SudokuBoard (its configuration)
    solver_board,          \* SudokuSolver.board / .sudoku_puzzle
    unsolved_spaces,       \* SudokuSolver.unsolved_spaces
    solved_board,          \* SudokuSolver.solved_board: the cached result
    local,                 \* the local variables of a running solve()
    calls,                 \* number of solve() calls made
    searches,              \* number of those that entered the while loop
    returned,              \* the boards returned by solve(), in call order
    observed,              \* the accessor called on the board and its result
    other                  \* a second solver built from an equal board: its
                           \* cache, its calls, its searches, what it returned

vars == <<impl, overflow_checks, input, pc, panic, board, solver_board,
          unsolved_spaces, solved_board, local, calls, searches, returned,
          observed, other>>

NoOther == [solved_board |-> NoBoard, calls |-> 0, searches |-> 0,
            returned |-> <<>>]

NoQuery == [method |-> "none", arg |-> 0, result |-> <<>>]

NoLocal == [working |-> NoBoard, attempted |-> EmptyMap, index |-> Usize(0), panic |-> None]

Init ==
    /\ impl \in {"sudoku_solver", "lib"}
    /\ overflow_checks \in BOOLEAN
    /\ input \in Inputs
    /\ pc = "start"
    /\ panic = None
    /\ board = NoBoard
    /\ solver_board = NoBoard
    /\ unsolved_spaces = <<>>
    /\ solved_board = NoBoard
    /\ local = NoLocal
    /\ calls = 0
    /\ searches = 0
    /\ returned = <<>>
    /\ observed = NoQuery
    /\ other = NoOther

\* SudokuBoard::new(&input) of sudoku_board.rs
BoardNew ==
    /\ pc = "start"
    /\ impl = "sudoku_solver"
    /\ LET made == SudokuBoard_new(input)
       IN  IF made.panic # None
           THEN /\ pc' = "panicked"
                /\ panic' = made.panic
                /\ UNCHANGED board
           ELSE /\ pc' = "board"
                /\ board' = made.configuration
                /\ UNCHANGED panic
    /\ UNCHANGED <<other, observed, impl, overflow_checks, input, solver_board, unsolved_spaces,
                   solved_board, local, calls, searches, returned>>

\* SudokuSolver::new(&board) of sudoku_solver.rs
SolverNew ==
    /\ pc = "board"
    /\ impl = "sudoku_solver"
    /\ IF ~all_spaces_valid(board)
       THEN /\ pc' = "panicked"
            /\ panic' = "An invalid starting board configuration was passed."
            /\ UNCHANGED <<solver_board, unsolved_spaces, solved_board>>
       ELSE /\ pc' = "ready"
            /\ solver_board' = board
            /\ unsolved_spaces' = get_unsolved_spaces(board)
            /\ solved_board' = NoBoard
            /\ UNCHANGED panic
    /\ UNCHANGED <<other, observed, impl, overflow_checks, input, board, local, calls,
                   searches, returned>>

\* SudokuSolver::new(&input) of lib.rs
LibSolverNew ==
    /\ pc = "start"
    /\ impl = "lib"
    /\ IF Lib_InvalidDimensions(input)
       THEN /\ pc' = "panicked"
            /\ panic' = "The board must be 9x9."
            /\ UNCHANGED <<solver_board, unsolved_spaces, solved_board>>
       ELSE LET made == Lib_SudokuBoard_new(input)
            IN  IF ~all_spaces_valid(made.configuration)
                THEN /\ pc' = "panicked"
                     /\ panic' = "An invalid starting board configuration was passed."
                     /\ UNCHANGED <<solver_board, unsolved_spaces, solved_board>>
                ELSE /\ pc' = "ready"
                     /\ solver_board' = made.configuration
                     /\ unsolved_spaces' = get_unsolved_spaces(made.configuration)
                     /\ solved_board' = NoBoard
                     /\ UNCHANGED panic
    /\ UNCHANGED <<other, observed, impl, overflow_checks, input, board, local, calls,
                   searches, returned>>

\* mutant: the cache is never consulted
CacheHit_Never(cache) == FALSE

\* what a call of one accessor of SudokuBoard on the board cfg yields
QueryResult(cfg, method, arg) ==
    CASE method = "get_row" -> get_row(cfg, arg)
      [] method = "get_column" -> get_column(cfg, arg)
      [] method = "get_nonet" -> get_nonet(cfg, arg)
      [] method = "all_spaces_valid" -> all_spaces_valid(cfg)
      [] method = "all_spaces_solved" -> all_spaces_solved(cfg)
      [] method = "get_unsolved_spaces" -> get_unsolved_spaces(cfg)

\* the caller asks the board it constructed instead of building a solver
\* from it, as the tests of sudoku_board.rs do
BoardQuery ==
    /\ pc = "board"
    /\ impl = "sudoku_solver"
    /\ \E method \in {"get_row", "get_column", "get_nonet", "all_spaces_valid",
                      "all_spaces_solved", "get_unsolved_spaces"} :
         \E arg \in 0..8 :
           /\ method \in {"all_spaces_valid", "all_spaces_solved",
                          "get_unsolved_spaces"} => arg = 0
           /\ observed' = [method |-> method, arg |-> arg,
                           result |-> QueryResult(board, method, arg)]
    /\ pc' = "queried"
    /\ UNCHANGED <<other, impl, overflow_checks, input, panic, board,
                   solver_board, unsolved_spaces, solved_board, local, calls,
                   searches, returned>>

\* whether solve() takes the cached board instead of searching
CacheHit(cache) == cache # NoBoard

\* mutant: a cache hit hands back the starting board
CachedCopy_Base(cache, base) == base

\* what solve() hands back on a cache hit
CachedCopy(cache, base) == cache

\* solve() up to the head of the while loop: the cached board is returned at
\* once, otherwise the local variables are set up
SolveCall ==
    /\ pc = "ready"
    /\ calls < MaxCalls
    /\ calls' = calls + 1
    /\ IF CacheHit(solved_board)
       THEN /\ returned' = Append(returned, CachedCopy(solved_board, solver_board))
            /\ UNCHANGED <<pc, local, searches>>
       ELSE /\ pc' = "loop"
            /\ local' = [working |-> solver_board, attempted |-> EmptyMap,
                         index |-> Usize(0), panic |-> None]
            /\ searches' = searches + 1
            /\ UNCHANGED returned
    /\ UNCHANGED <<other, observed, impl, overflow_checks, input, panic, board, solver_board,
                   unsolved_spaces, solved_board>>

\* mutant: the search works on the solver's own board instead of a copy
SolveStep_InPlace ==
    /\ pc = "loop"
    /\ LoopGuard(impl, local, unsolved_spaces)
    /\ local' = LoopBody(local, unsolved_spaces, overflow_checks)
    /\ solver_board' = local'.working
    /\ IF local'.panic # None
       THEN pc' = "panicked" /\ panic' = local'.panic
       ELSE UNCHANGED <<pc, panic>>
    /\ UNCHANGED <<other, observed, impl, overflow_checks, input, board,
                   unsolved_spaces, solved_board, calls, searches, returned>>

\* one iteration of the while loop
SolveStep ==
    /\ pc = "loop"
    /\ LoopGuard(impl, local, unsolved_spaces)
    /\ local' = LoopBody(local, unsolved_spaces, overflow_checks)
    /\ IF local'.panic # None
       THEN pc' = "panicked" /\ panic' = local'.panic
       ELSE UNCHANGED <<pc, panic>>
    /\ UNCHANGED <<other, observed, impl, overflow_checks, input, board, solver_board,
                   unsolved_spaces, solved_board, calls, searches, returned>>

\* the while loop of solve() has ended: a panic was raised or the guard fails
LoopEnded(st, spaces, which) ==
    st.panic # None \/ ~LoopGuard(which, st, spaces)

\* at most n iterations of the while loop of solve(), stopping where it ends
\* (split in halves to keep the evaluation shallow)
RECURSIVE RunFor(_, _, _, _, _)
RunFor(st, n, spaces, which, checks) ==
    IF LoopEnded(st, spaces, which) THEN st
    ELSE IF n = 1 THEN LoopBody(st, spaces, checks)
    ELSE RunFor(RunFor(st, n \div 2, spaces, which, checks),
                n - (n \div 2), spaces, which, checks)

\* the while loop of solve() run to its end: the local variables when the
\* guard fails or a panic is raised; n is the size of the next batch
RECURSIVE RunSearch(_, _, _, _, _)
RunSearch(st, n, spaces, which, checks) ==
    LET r == RunFor(st, n, spaces, which, checks)
    IN  IF LoopEnded(r, spaces, which) THEN r
        ELSE RunSearch(r, 2 * n, spaces, which, checks)

\* mutant: the cache is shared by the solvers built from equal boards
ConsultedCache_Shared(own, foreign) == IF own = NoBoard THEN foreign ELSE own

\* the cache a solver consults is its own field self.solved_board
ConsultedCache(own, foreign) == own

\* a whole solve() call on the second solver.  The program is sequential,
\* so the call runs from entry to return while the first solver is idle.
OtherSolve ==
    /\ pc = "ready"
    /\ other.calls < MaxOtherCalls
    /\ LET cache == ConsultedCache(other.solved_board, solved_board)
       IN  IF CacheHit(cache)
           THEN /\ other' = [other EXCEPT
                               !.calls = @ + 1,
                               !.returned = Append(@, CachedCopy(cache, solver_board))]
                /\ UNCHANGED <<pc, panic>>
           ELSE LET end == RunSearch([working |-> solver_board,
                                      attempted |-> EmptyMap,
                                      index |-> Usize(0), panic |-> None],
                                     1, unsolved_spaces, impl, overflow_checks)
                IN  IF end.panic # None
                    THEN /\ other' = [other EXCEPT !.calls = @ + 1,
                                                   !.searches = @ + 1]
                         /\ pc' = "panicked"
                         /\ panic' = end.panic
                    ELSE /\ other' = [solved_board |-> end.working,
                                      calls |-> other.calls + 1,
                                      searches |-> other.searches + 1,
                                      returned |-> Append(other.returned, end.working)]
                         /\ UNCHANGED <<pc, panic>>
    /\ UNCHANGED <<observed, impl, overflow_checks, input, board, solver_board,
                   unsolved_spaces, solved_board, local, calls, searches,
                   returned>>

\* the loop is left: the working board is stored in the cache and a copy of
\* the cache is returned
SolveReturn ==
    /\ pc = "loop"
    /\ ~LoopGuard(impl, local, unsolved_spaces)
    /\ solved_board' = local.working
    /\ returned' = Append(returned, solved_board')
    /\ pc' = "ready"
    /\ UNCHANGED <<other, observed, impl, overflow_checks, input, panic, board, solver_board,
                   unsolved_spaces, local, calls, searches>>

Next ==
    \/ BoardNew
    \/ BoardQuery
    \/ SolverNew
    \/ LibSolverNew
    \/ SolveCall
    \/ SolveStep
    \/ SolveReturn
    \/ OtherSolve

Spec == Init /\ [][Next]_vars

\* a running solve() keeps running: the loop is a plain sequential loop
FairSpec == Spec /\ WF_vars(SolveStep) /\ WF_vars(SolveReturn)

(***************************************************************************)
(* The rules of Sudoku, stated without the accessors of the code           *)
(***************************************************************************)
Coords == (0..8) \X (0..8)

\* the 27 units: 9 rows, 9 columns, 9 boxes
Units ==
    {{<<r, c>> : c \in 0..8} : r \in 0..8}
      \cup {{<<r, c>> : r \in 0..8} : c \in 0..8}
      \cup {{<<3 * a + i, 3 * b + j>> : i \in 0..2, j \in 0..2} : a \in 0..2, b \in 0..2}

Is9x9(grid) == Len(grid) = 9 /\ \A i \in 1..9 : Len(grid[i]) = 9

HasZeroCell(grid) == \E x \in Coords : Cell(grid, x[1], x[2]) = 0

\* some row, column or box holds two equal non-zero values
HasDuplicate(grid) ==
    \E u \in Units : \E x \in u : \E y \in u \ {x} :
        Cell(grid, x[1], x[2]) # 0 /\ Cell(grid, x[1], x[2]) = Cell(grid, y[1], y[2])

HasValueAbove9(grid) ==
    \E i \in 1..Len(grid) : \E j \in 1..Len(grid[i]) : grid[i][j] \notin 0..9

\* the coordinates of the zero cells, in strictly ascending row-major order
IsRowMajorZeroList(spaces, grid) ==
    /\ {spaces[i] : i \in 1..Len(spaces)}
         = {x \in Coords : Cell(grid, x[1], x[2]) = 0}
    /\ \A i \in 1..Len(spaces) : \A j \in 1..Len(spaces) :
         i < j => 9 * spaces[i][1] + spaces[i][2] < 9 * spaces[j][1] + spaces[j][2]

\* the values of the other cells of the units of x
PeerValues(grid, x) ==
    {Cell(grid, y[1], y[2]) : y \in (UNION {u \in Units : x \in u}) \ {x}}

\* all ways to fill the listed blank cells of grid with 1..9 without
\* ever repeating a value in a unit
RECURSIVE Fillings(_, _)
Fillings(grid, blanks) ==
    IF blanks = {} THEN {grid}
    ELSE LET x == CHOOSE y \in blanks :
                    \A z \in blanks : 9 * y[1] + y[2] <= 9 * z[1] + z[2]
         IN  UNION {Fillings(SetCell(grid, x[1], x[2], v), blanks \ {x}) :
                       v \in (1..9) \ PeerValues(grid, x)}

\* the legal completions of a 9x9 grid: the grids without blank and without
\* duplicate that keep every clue
LegalCompletions(grid) ==
    IF HasDuplicate(grid) \/ HasValueAbove9(grid) THEN {}
    ELSE Fillings(grid, {x \in Coords : Cell(grid, x[1], x[2]) = 0})

InvalidPuzzleMessage == "An invalid starting board configuration was passed."
InvalidDimensionsMessage == "The board must be 9x9."
InvalidValueMessage == "All values must be [0..9] inclusive"

\* the expected board of solve_medium_works
MediumSolution == <<
    <<7,8,5, 4,3,9, 1,2,6>>,
    <<6,1,2, 8,7,5, 3,4,9>>,
    <<4,9,3, 6,2,1, 5,7,8>>,
    <<8,5,7, 9,4,3, 2,6,1>>,
    <<2,6,1, 7,5,8, 9,3,4>>,
    <<9,3,4, 1,6,2, 7,8,5>>,
    <<5,7,8, 3,9,4, 6,1,2>>,
    <<1,2,6, 5,8,7, 4,9,3>>,
    <<3,4,9, 2,1,6, 8,5,7>> >>

(***************************************************************************)
(* Claims                                                                  *)
(***************************************************************************)

\* C1: every board solve() returns or caches has no blank cell and no
\* duplicate in a row, column or box, also when the accepted board has no
\* legal completion.
C1_Soundness ==
    /\ solved_board # NoBoard =>
         ~HasZeroCell(solved_board) /\ ~HasDuplicate(solved_board)
    /\ \A i \in 1..Len(returned) :
         ~HasZeroCell(returned[i]) /\ ~HasDuplicate(returned[i])

\* C2: when the starting board has exactly one legal completion, every board
\* solve() returns is that completion.
C2_UniqueCompletionFound ==
    returned # <<>> =>
        LET completions == LegalCompletions(solver_board)
        IN  Cardinality(completions) = 1 =>
                \A i \in 1..Len(returned) : returned[i] \in completions

\* the medium fixture has been solved to the board its test expects
C2_Witness ==
    /\ input = MediumPuzzle
    /\ returned # <<>>
    /\ returned[1] = MediumSolution
    /\ LegalCompletions(solver_board) = {MediumSolution}

\* the loop is at a coordinate for which no candidate value is left
MustBacktrack ==
    /\ pc = "loop"
    /\ LoopGuard(impl, local, unsolved_spaces)
    /\ UsizeLt(local.index, Usize(Len(unsolved_spaces)))
    /\ LET x == unsolved_spaces[Position(local.index) + 1]
           key == <<x[1], x[2]>>
           tried == IF key \in DOMAIN local.attempted
                    THEN SeqToSet(local.attempted[key]) ELSE {}
       IN  (1..9) \subseteq (tried \cup PeerValues(local.working, x))

\* C3: solve() always leaves its loop; on a board with a legal completion
\* it never backtracks from cursor 0 and ends, without panic, with the
\* cursor equal to the number of unsolved spaces.
C3_CompleteOnSolvable ==
    /\ []<>(pc # "loop")
    /\ [](MustBacktrack /\ local.index = Usize(0)
            => LegalCompletions(solver_board) = {})
    /\ [](searches > 0 /\ pc # "loop" /\ LegalCompletions(solver_board) # {}
            => /\ pc = "ready"
               /\ returned # <<>>
               /\ local.index = Usize(Len(unsolved_spaces)))

\* a search on a solvable board that had to backtrack has ended at the
\* accepting cursor
C3_Witness ==
    /\ input = MediumPuzzle
    /\ pc = "ready"
    /\ searches = 1
    /\ local.index = Usize(Len(unsolved_spaces))
    /\ LegalCompletions(solver_board) # {}

\* C4: every solve() call on one solver returns the board the first call
\* returned.
C4_Idempotent ==
    \A i \in 1..Len(returned) : returned[i] = returned[1]

\* a second call has returned, after a search that filled blank cells
C4_Witness ==
    /\ Len(returned) >= 2
    /\ returned[2] # solver_board

\* C5: the loop runs only while the cache is empty; once the cache is filled
\* it is never written again, and every later call returns the cached board
\* without a search step.
C5_AtMostOnce ==
    [][/\ searches' > searches => solved_board = NoBoard
       /\ pc' = "loop" => solved_board' = NoBoard
       /\ solved_board # NoBoard =>
            /\ solved_board' = solved_board
            /\ local' = local
            /\ searches' = searches
            /\ calls' > calls => returned' = Append(returned, solved_board)
      ]_vars

\* a call was made on a solver whose cache was already filled
C5_Witness ==
    /\ calls >= 2
    /\ searches = 1
    /\ solved_board # NoBoard
    /\ Len(returned) = calls

\* the solver constructor has run on a 9x9 grid: this is the grid it was given
ConstructorArgument ==
    IF impl = "lib"
    THEN (IF pc # "start" /\ Is9x9(input) THEN input ELSE NoBoard)
    ELSE (IF pc \in {"ready", "loop", "panicked"} THEN board ELSE NoBoard)

\* C6: SudokuSolver::new panics, creating no solver, exactly when some row,
\* column or box of the supplied board holds two equal non-zero values.
C6_NewFailsIffDuplicate ==
    calls = 0 /\ other.calls = 0 /\ ConstructorArgument # NoBoard =>
        /\ (panic = InvalidPuzzleMessage) <=> HasDuplicate(ConstructorArgument)
        /\ (pc = "ready") <=> ~HasDuplicate(ConstructorArgument)
        /\ pc = "panicked" => solver_board = NoBoard

\* the constructor has refused a board that has a duplicate
C6_Witness ==
    /\ ConstructorArgument # NoBoard
    /\ HasDuplicate(ConstructorArgument)
    /\ panic = InvalidPuzzleMessage

\* C7: right after a successful SudokuSolver::new(b) the solver's board is b,
\* unsolved_spaces is the row-major list of b's zero cells, the cache is
\* empty and b is unchanged.
C7_NewCaptures ==
    pc = "ready" /\ calls = 0 =>
        /\ solver_board = input
        /\ impl = "sudoku_solver" => board = input
        /\ IsRowMajorZeroList(unsolved_spaces, input)
        /\ solved_board = NoBoard

\* a solver was built from a board with several blank cells
C7_Witness ==
    /\ pc = "ready"
    /\ calls = 0
    /\ Len(unsolved_spaces) >= 2

\* C8: SudokuBoard::new panics for every input that is not 9 rows of 9
\* cells, so every constructed board is 9x9.
C8_BoardNewDimensions ==
    impl = "sudoku_solver" =>
        /\ pc # "start" /\ ~Is9x9(input) =>
             /\ pc = "panicked"
             /\ panic = InvalidDimensionsMessage
             /\ board = NoBoard
        /\ board # NoBoard => Is9x9(board)

\* the constructor has refused a grid whose rows have 8 cells
C8_Witness ==
    /\ impl = "sudoku_solver"
    /\ pc = "panicked"
    /\ Len(input) = 9
    /\ Len(input[1]) = 8

\* C9: SudokuBoard::new panics for every 9x9 input with a value above 9, so
\* every constructed board has all values in 0..9.
C9_BoardNewValues ==
    impl = "sudoku_solver" =>
        /\ pc # "start" /\ Is9x9(input) /\ HasValueAbove9(input) =>
             /\ pc = "panicked"
             /\ panic = InvalidValueMessage
             /\ board = NoBoard
        /\ board # NoBoard => ~HasValueAbove9(board)

\* the constructor has refused a 9x9 grid that holds a value above 9
C9_Witness ==
    /\ impl = "sudoku_solver"
    /\ pc = "panicked"
    /\ Is9x9(input)
    /\ HasValueAbove9(input)

\* C10: on the lib.rs path SudokuSolver::new refuses every grid that is not
\* 9x9, holds a value outside 0..9 or has a duplicate, so no solver holds a
\* value above 9 and solve() never returns one.
C10_LibRejectsInvalid ==
    impl = "lib" =>
        /\ pc # "start" /\ (~Is9x9(input) \/ HasValueAbove9(input)
                              \/ HasDuplicate(input)) =>
             pc = "panicked" /\ solver_board = NoBoard
        /\ solver_board # NoBoard => ~HasValueAbove9(solver_board)
        /\ \A i \in 1..Len(returned) : ~HasValueAbove9(returned[i])

\* C11: SudokuBoard::new accepts every 9x9 grid with values in 0..9, also
\* one with a repeated non-zero value in a row, column or box, and the
\* board's configuration is the input cell for cell.
C11_BoardNewNoUniquenessCheck ==
    impl = "sudoku_solver" /\ pc # "start"
      /\ Is9x9(input) /\ ~HasValueAbove9(input) =>
        /\ board = input
        /\ panic \notin {InvalidDimensionsMessage, InvalidValueMessage}

\* a board was constructed from a grid that breaks the uniqueness rule
C11_Witness ==
    /\ impl = "sudoku_solver"
    /\ pc = "board"
    /\ board = input
    /\ HasDuplicate(board)

\* C12: all_spaces_valid() is false exactly when some row, column or box
\* holds two cells with the same non-zero value; blank cells never count.
C12_ValidIffNoDuplicate ==
    observed.method = "all_spaces_valid" =>
        observed.result = ~HasDuplicate(board)

\* the predicate has refused a board that has a duplicate and blank cells
C12_Witness ==
    /\ observed.method = "all_spaces_valid"
    /\ observed.result = FALSE
    /\ HasDuplicate(board)
    /\ Cardinality({x \in Coords : Cell(board, x[1], x[2]) = 0}) >= 2

\* C13: all_spaces_solved() is true exactly when no cell holds 0, whether
\* or not the board satisfies the uniqueness rules.
C13_SolvedIffNoZero ==
    observed.method = "all_spaces_solved" =>
        observed.result = ~HasZeroCell(board)

\* a full board with a duplicate has been reported solved
C13_Witness ==
    /\ observed.method = "all_spaces_solved"
    /\ observed.result = TRUE
    /\ HasDuplicate(board)

\* C14: get_unsolved_spaces() returns the coordinates of the cells holding
\* 0, each once, in strictly ascending row-major order; its length plus the
\* number of non-zero cells is 81.
C14_UnsolvedSpacesRowMajor ==
    observed.method = "get_unsolved_spaces" =>
        /\ IsRowMajorZeroList(observed.result, board)
        /\ Len(observed.result)
             + Cardinality({x \in Coords : Cell(board, x[1], x[2]) # 0}) = 81

\* the list was computed for a board with blank cells in several rows
C14_Witness ==
    /\ observed.method = "get_unsolved_spaces"
    /\ Len(observed.result) >= 3
    /\ observed.result[1][1] # observed.result[Len(observed.result)][1]

\* C15: get_nonet(k) returns the values of the cells (3*(k/3)+a, 3*(k%3)+b),
\* a and b in 0..2, with a as the outer and b as the inner index.
C15_NonetRowMajor ==
    observed.method = "get_nonet" =>
        /\ Len(observed.result) = 9
        /\ \A a \in 0..2 : \A b \in 0..2 :
             observed.result[3 * a + b + 1]
               = Cell(board, 3 * (observed.arg \div 3) + a,
                             3 * (observed.arg % 3) + b)

\* box 5 (rows 3-5, columns 6-8) has been read
C15_Witness ==
    /\ observed.method = "get_nonet"
    /\ observed.arg = 5
    /\ observed.result[1] = Cell(board, 3, 6)
    /\ observed.result[9] = Cell(board, 5, 8)

\* the set of coordinates get_nonet(k) reads
NonetCoordSet(k) == {NonetCoords(k)[n] : n \in 1..9}

\* C16: the coordinate sets read by get_nonet(0) .. get_nonet(8) are
\* pairwise disjoint and their union is the whole grid: whichever box is
\* read, its 9 coordinates meet no other box, and the 9 boxes cover the grid.
C16_NonetsPartitionGrid ==
    observed.method = "get_nonet" =>
        /\ Cardinality(NonetCoordSet(observed.arg)) = 9
        /\ \A m \in (0..8) \ {observed.arg} :
             NonetCoordSet(observed.arg) \cap NonetCoordSet(m) = {}
        /\ UNION {NonetCoordSet(k) : k \in 0..8} = Coords

\* the last box has been read, from the coordinates of its coordinate set
C16_Witness ==
    /\ observed.method = "get_nonet"
    /\ observed.arg = 8
    /\ SeqToSet(observed.result)
         = {Cell(board, x[1], x[2]) : x \in NonetCoordSet(8)}

\* C17: get_row(i)[j] and get_column(j)[i] both equal the cell (i, j); a
\* row is listed left to right, a column top to bottom, and the board is
\* not changed.
C17_RowColumnAgreeWithCell ==
    /\ observed.method = "get_row" =>
         /\ Len(observed.result) = 9
         /\ \A j \in 0..8 :
              /\ observed.result[j + 1] = Cell(board, observed.arg, j)
              /\ observed.result[j + 1] = get_column(board, j)[observed.arg + 1]
    /\ observed.method = "get_column" =>
         /\ Len(observed.result) = 9
         /\ \A i \in 0..8 :
              /\ observed.result[i + 1] = Cell(board, i, observed.arg)
              /\ observed.result[i + 1] = get_row(board, i)[observed.arg + 1]
    /\ observed # NoQuery => board = input

\* a column was read that differs from the row of the same index
C17_Witness ==
    /\ observed.method = "get_column"
    /\ observed.arg = 3
    /\ observed.result # get_row(board, 3)
    /\ board = input

\* C18: solve() never changes the solver's board or its unsolved_spaces:
\* at every step of every call both keep the values they got at
\* construction; a step of the search changes only the local variables, and
\* the cache is written only when the loop is left.
C18_SolveKeepsBaseBoard ==
    [][(pc = "ready" \/ pc = "loop") =>
         (/\ solver_board' = solver_board
          /\ unsolved_spaces' = unsolved_spaces
          /\ solver_board = input
          /\ IsRowMajorZeroList(unsolved_spaces, input)
          /\ (solved_board' # solved_board =>
                pc = "loop" /\ pc' = "ready" /\ solved_board' = local.working))
      ]_vars

\* after a search that filled cells and a further call the solver still
\* holds the starting board
C18_Witness ==
    /\ pc = "ready"
    /\ calls >= 2
    /\ returned # <<>>
    /\ returned[1] # solver_board
    /\ solver_board = input
    /\ HasZeroCell(solver_board)

\* C19: two solvers built from equal boards are independent and
\* deterministic.  A step of solve() on one solver leaves the other solver's
\* cache, counters and returned boards as they were (in both directions); a
\* solver whose own cache is empty runs its own search on its first call,
\* whatever the other solver has cached; and the boards the two solvers
\* return are equal.
C19_SolversIndependent ==
    [][/\ other' # other =>
            /\ solved_board' = solved_board
            /\ local' = local
            /\ calls' = calls /\ searches' = searches
            /\ returned' = returned
       /\ (solved_board' # solved_board \/ local' # local
             \/ returned' # returned) => other' = other
       /\ (other'.calls > other.calls /\ other.solved_board = NoBoard) =>
            other'.searches = other.searches + 1
       /\ (other'.returned # <<>> /\ returned' # <<>>) =>
            other'.returned[1] = returned'[1]
      ]_vars

\* the first solver has solved its puzzle and cached it, the second solver
\* has run its own search, and both returned the same filled board
C19_Witness ==
    /\ impl = "sudoku_solver"
    /\ unsolved_spaces # <<>>
    /\ solved_board # NoBoard
    /\ searches = 1
    /\ other.searches = 1
    /\ other.solved_board = solved_board
    /\ returned # <<>>
    /\ other.returned = <<returned[1]>>

\* C20: on every accepted board, solvable or not, the cursor of a running
\* solve() stays within 0..len(unsolved_spaces), and unsolved_spaces is
\* never indexed at or beyond its length.
C20_CursorBounds ==
    /\ pc = "loop" =>
         /\ UsizeLeq(Usize(0), local.index)
         /\ UsizeLeq(local.index, Usize(Len(unsolved_spaces)))
    /\ panic # "index out of bounds"

\* the solver holds an accepted board that has no legal completion
Unsolvable == solver_board # NoBoard /\ LegalCompletions(solver_board) = {}

\* C21: on an accepted board without legal completion solve() ends in a
\* fatal error at the attempt to backtrack from cursor 0: no board is
\* returned, the cache stays empty, and the loop is never left with a
\* partially filled working board.
C21_UnsolvableIsFatal ==
    Unsolvable =>
        /\ solved_board = NoBoard
        /\ returned = <<>>
        /\ other.returned = <<>>
        /\ pc = "loop" => LoopGuard(impl, local, unsolved_spaces)
        /\ (pc = "panicked" /\ searches > 0 /\ other.searches = 0) =>
              /\ panic = "attempt to subtract with overflow"
              /\ local.index = Usize(0)

\* an iteration of the loop of the first solver runs at a coordinate
InIteration ==
    /\ pc = "loop"
    /\ UsizeLt(local.index, Usize(Len(unsolved_spaces)))
    /\ local' # local

\* the values recorded as attempted at coordinate x
Tried(x) ==
    IF x \in DOMAIN local.attempted THEN SeqToSet(local.attempted[x]) ELSE {}

\* the values 1..9 neither attempted at x nor present in a unit of x
Untried(x) ==
    {v \in 1..9 : v \notin Tried(x) /\ v \notin PeerValues(local.working, x)}

\* C22: an iteration at coordinate (r,c) places the smallest value of 1..9
\* that is neither in the attempted-values record of (r,c) nor among the
\* values of the row, column and box of (r,c); it backtracks, leaving the
\* cell at 0, exactly when there is no such value.
C22_CandidateChoice ==
    [][InIteration =>
         LET x == unsolved_spaces[Position(local.index) + 1]
             placed == Cell(local'.working, x[1], x[2])
         IN  IF Untried(x) # {}
             THEN /\ placed \in Untried(x)
                  /\ \A v \in Untried(x) : placed <= v
                  /\ local'.index = Usize(Position(local.index) + 1)
             ELSE /\ placed = 0
                  /\ local'.index # Usize(Position(local.index) + 1)
      ]_vars

\* the search has come back to a coordinate and placed a second value there,
\* larger than a value that the units of the coordinate would allow
C22_Witness ==
    /\ pc = "loop"
    /\ \E x \in DOMAIN local.attempted :
         /\ Len(local.attempted[x]) >= 2
         /\ Cell(local.working, x[1], x[2]) = local.attempted[x][Len(local.attempted[x])]
         /\ local.attempted[x][1] \notin PeerValues(local.working, x)

\* the attempted-values record of coordinate x in the map m, empty if absent
RecordOf(m, x) == IF x \in DOMAIN m THEN m[x] ELSE <<>>

\* C23: a forward step at (r,c) = unsolved_spaces[i] sets working cell (r,c)
\* to the value found, appends that value to the attempted-values record of
\* (r,c) and increases the cursor by exactly 1; every other cell and every
\* other coordinate's record is unchanged.
C23_ForwardStep ==
    [][(InIteration /\ Untried(unsolved_spaces[Position(local.index) + 1]) # {}) =>
         LET x == unsolved_spaces[Position(local.index) + 1]
             v == Cell(local'.working, x[1], x[2])
         IN  /\ v \in 1..9
             /\ local'.index = Usize(Position(local.index) + 1)
             /\ local'.panic = None
             /\ RecordOf(local'.attempted, x)
                  = Append(RecordOf(local.attempted, x), v)
             /\ DOMAIN local'.attempted = DOMAIN local.attempted \cup {x}
             /\ \A y \in DOMAIN local.attempted \ {x} :
                  local'.attempted[y] = local.attempted[y]
             /\ \A y \in Coords \ {x} :
                  Cell(local'.working, y[1], y[2]) = Cell(local.working, y[1], y[2])
      ]_vars

\* a forward step has been taken at a coordinate other than the first while
\* an earlier coordinate holds its own record and value
C23_Witness ==
    /\ pc = "loop"
    /\ UsizeLeq(Usize(2), local.index)
    /\ UsizeLeq(local.index, Usize(Len(unsolved_spaces)))
    /\ LET x == unsolved_spaces[Position(local.index)]
           y == unsolved_spaces[1]
       IN  /\ x \in DOMAIN local.attempted
           /\ y \in DOMAIN local.attempted
           /\ Cell(local.working, x[1], x[2])
                = local.attempted[x][Len(local.attempted[x])]
           /\ Cell(local.working, y[1], y[2]) # 0

\* what a backtrack step at the coordinate x at the cursor leaves behind,
\* apart from the cursor: no record for x, cell x at 0, every other record
\* and every other cell as before
BacktrackFrame(x) ==
    /\ x \notin DOMAIN local'.attempted
    /\ Cell(local'.working, x[1], x[2]) = 0
    /\ DOMAIN local'.attempted = DOMAIN local.attempted \ {x}
    /\ \A y \in DOMAIN local.attempted \ {x} :
         local'.attempted[y] = local.attempted[y]
    /\ \A y \in Coords \ {x} :
         Cell(local'.working, y[1], y[2]) = Cell(local.working, y[1], y[2])

\* C24: a backtrack step at unsolved_spaces[i] removes the whole record of
\* that coordinate, leaves its cell at 0, decreases the cursor by exactly 1
\* and changes no other record or cell, so that the previous coordinate
\* keeps a record that holds the value in its cell and next tries another.
C24_BacktrackStep ==
    [][(InIteration /\ Untried(unsolved_spaces[Position(local.index) + 1]) = {}) =>
         /\ BacktrackFrame(unsolved_spaces[Position(local.index) + 1])
         /\ local.index # Usize(0)
         /\ local'.index = Usize(Position(local.index) - 1)
         /\ local'.panic = None
         /\ LET p == unsolved_spaces[Position(local.index)]
            IN  /\ p \in DOMAIN local'.attempted
                /\ Cell(local'.working, p[1], p[2])
                     \in SeqToSet(local'.attempted[p])
      ]_vars

\* C25: in every state of the solve() loop on an accepted board the working
\* board has no row, column or box with two equal non-zero values, and
\* all_spaces_valid() says so; this includes the states right after a
\* backtrack, when the cell at the cursor still holds the value placed there.
C25_WorkingBoardValid ==
    local.working # NoBoard =>
        /\ ~HasDuplicate(local.working)
        /\ all_spaces_valid(local.working)

\* right after a backtrack: the cell at the cursor holds a value, and a
\* later coordinate was filled and cleared again
C25_Witness ==
    /\ pc = "loop"
    /\ UsizeLt(local.index, Usize(Len(unsolved_spaces)))
    /\ Position(local.index) + 1 < Len(unsolved_spaces)
    /\ Cell(local.working, unsolved_spaces[Position(local.index) + 1][1],
                           unsolved_spaces[Position(local.index) + 1][2]) # 0
    /\ Cell(local.working, unsolved_spaces[Position(local.index) + 2][1],
                           unsolved_spaces[Position(local.index) + 2][2]) = 0
    /\ ~HasDuplicate(local.working)

\* C26: at every loop head of solve() with cursor i, the working cell of
\* every unsolved space before position i is filled and that of every
\* unsolved space after position i is blank; hence the working board has no
\* blank cell exactly when i is the number of unsolved spaces.
C26_SearchShape ==
    pc = "loop" =>
        /\ \A k \in 0..(Len(unsolved_spaces) - 1) :
             LET x == unsolved_spaces[k + 1]
             IN  /\ UsizeLt(Usize(k), local.index) => Cell(local.working, x[1], x[2]) # 0
                 /\ UsizeLt(local.index, Usize(k)) => Cell(local.working, x[1], x[2]) = 0
        /\ ~HasZeroCell(local.working) <=> local.index = Usize(Len(unsolved_spaces))

\* the local variables at the entry of the loop of solve()
EntryState ==
    [working |-> solver_board, attempted |-> EmptyMap, index |-> Usize(0),
     panic |-> None]

\* how the loop of solve() ends in the implementation named which
Outcome(which) ==
    RunSearch(EntryState, 1, unsolved_spaces, which, overflow_checks)

\* C27: on every accepted board the loop of lib.rs and the loop of
\* sudoku_solver.rs pass through the same states: at every loop head the
\* two guards agree (the bodies are the same), and the two loops either
\* both end without panic on the same working board or both panic.
C27_ImplementationsAgree ==
    /\ pc = "loop" =>
         LoopGuard("lib", local, unsolved_spaces)
           = LoopGuard("sudoku_solver", local, unsolved_spaces)
    /\ (pc = "ready" /\ calls = 0 /\ ~HasValueAbove9(input)) =>
         /\ (Outcome("lib").panic = None)
              <=> (Outcome("sudoku_solver").panic = None)
         /\ Outcome("lib").panic = None =>
              Outcome("lib").working = Outcome("sudoku_solver").working

\* C28: in every state of solve() with cursor i each attempted-values record
\* is strictly ascending, the record of every unsolved space after position
\* i is absent or empty, and the record of every unsolved space before
\* position i ends with the value in that working cell.
C28_AttemptedValues ==
    local.working # NoBoard =>
        /\ \A x \in DOMAIN local.attempted :
             \A m \in 1..Len(local.attempted[x]) : \A n \in 1..Len(local.attempted[x]) :
               m < n => local.attempted[x][m] < local.attempted[x][n]
        /\ \A k \in 0..(Len(unsolved_spaces) - 1) :
             LET x == unsolved_spaces[k + 1]
             IN  /\ UsizeLt(local.index, Usize(k)) => RecordOf(local.attempted, x) = <<>>
                 /\ UsizeLt(Usize(k), local.index) =>
                      /\ RecordOf(local.attempted, x) # <<>>
                      /\ RecordOf(local.attempted, x)[Len(RecordOf(local.attempted, x))]
                           = Cell(local.working, x[1], x[2])

\* grid g comes before grid h, or is h, when the cells are read in
\* row-major order: at the first cell where they differ g is smaller
LexLeq(g, h) ==
    \/ g = h
    \/ \E x \in Coords :
         /\ Cell(g, x[1], x[2]) < Cell(h, x[1], x[2])
         /\ \A y \in Coords :
              9 * y[1] + y[2] < 9 * x[1] + x[2] =>
                Cell(g, y[1], y[2]) = Cell(h, y[1], y[2])

\* C29: on an accepted board with at least one legal completion, every board
\* solve() returns is the legal completion that is smallest when the values
\* of the blank cells are read in row-major order (the completions agree on
\* all other cells).
C29_SmallestCompletion ==
    returned # <<>> =>
        LET completions == LegalCompletions(solver_board)
        IN  completions # {} =>
              /\ returned[1] \in completions
              /\ \A g \in completions : LexLeq(returned[1], g)

\* a board with several legal completions has been solved, and the board
\* returned is not the only candidate
C29_Witness ==
    /\ returned # <<>>
    /\ Cardinality(LegalCompletions(solver_board)) >= 2
    /\ \E g \in LegalCompletions(solver_board) :
         g # returned[1] /\ LexLeq(returned[1], g)

\* grid g holds every non-zero value of the starting grid of the solver
KeepsClues(g) ==
    \A x \in Coords :
        Cell(solver_board, x[1], x[2]) # 0 =>
            Cell(g, x[1], x[2]) = Cell(solver_board, x[1], x[2])

\* C30: solve() writes only cells whose coordinates are in unsolved_spaces:
\* every working board, the cached board and every returned board hold the
\* original value in each cell that was non-zero in the starting board.
C30_CluesPreserved ==
    /\ local.working # NoBoard => KeepsClues(local.working)
    /\ solved_board # NoBoard => KeepsClues(solved_board)
    /\ \A i \in 1..Len(returned) : KeepsClues(returned[i])
    /\ \A i \in 1..Len(other.returned) : KeepsClues(other.returned[i])
    /\ local.working # NoBoard =>
         \A x \in Coords :
           Cell(local.working, x[1], x[2]) # Cell(solver_board, x[1], x[2])
             => x \in SeqToSet(unsolved_spaces)

\* a search has filled blank cells of a board that has clues, and the board
\* was returned
C30_Witness ==
    /\ returned # <<>>
    /\ returned[1] # solver_board
    /\ \E x \in Coords : Cell(solver_board, x[1], x[2]) # 0
    /\ KeepsClues(returned[1])

\* C31: for every coordinate (r,c) the box index the solver computes,
\* 3*((9r+c)/27) + ((9r+c)/3 % 3), equals 3*(r/3) + (c/3) and is the index
\* of the box whose cells get_nonet reads include (r,c): whichever box k is
\* read, the coordinates with computed index k are exactly the coordinates
\* get_nonet(k) reads, and the index computed at the cursor of a running
\* search is that of the box of the cursor's coordinate.
C31_NonetIndexOfCoordinate ==
    /\ observed.method = "get_nonet" =>
         \A x \in Coords :
           /\ NonetIndexOf(x[1], x[2]) = 3 * (x[1] \div 3) + (x[2] \div 3)
           /\ (NonetIndexOf(x[1], x[2]) = observed.arg)
                <=> (x \in NonetCoordSet(observed.arg))
    /\ (pc = "loop" /\ UsizeLt(local.index, Usize(Len(unsolved_spaces)))) =>
         LET x == unsolved_spaces[Position(local.index) + 1]
         IN  /\ NonetIndexOf(x[1], x[2]) = 3 * (x[1] \div 3) + (x[2] \div 3)
             /\ x \in NonetCoordSet(NonetIndexOf(x[1], x[2]))

\* box 5 has been read: it is the box computed for coordinate (5,8), whose
\* cell is the last one get_nonet(5) lists
C31_Witness ==
    /\ observed.method = "get_nonet"
    /\ observed.arg = 5
    /\ NonetIndexOf(5, 8) = observed.arg
    /\ observed.result[9] = Cell(board, 5, 8)

====
